---- MODULE Spec2Model ----
(***************************************************************************)
(* A model of autodoist.py: one poll cycle is autodoist_magic (the         *)
(* traversal of projects, sections and items that maintains the            *)
(* next-action label) followed by update_labels (the flush of the label    *)
(* writes).                                                                *)
(*                                                                         *)
(* Strings are sequences of one-character strings, so that suffix tests,   *)
(* find() and slicing are computed as the code computes them.              *)
(*                                                                         *)
(* The objects the traversal works on are the Task, Section and Project    *)
(* objects of todoist_api_python (autodoist.py:10, 309).  They have the    *)
(* attributes id, parent_id, section_id, project_id, content / name,       *)
(* order, is_completed, due and labels, and nothing else: no update()      *)
(* method, no data attribute, no item[...] subscription and no date_old    *)
(* or r_tag attribute.  Every use of one of those raises an exception,     *)
(* which the model follows to the except clause that catches it (or to     *)
(* the end of the process when none does).                                 *)
(***************************************************************************)
EXTENDS Integers, Sequences, FiniteSets, TLC

(***************************************************************************)
(* Python string helpers.                                                  *)
(***************************************************************************)

\* s[a:b] of Python for 0 <= a, on a sequence indexed from 1.
Slice(s, a, b) ==
    LET hi == IF b > Len(s) THEN Len(s) ELSE b
    IN  IF a >= hi THEN <<>> ELSE SubSeq(s, a + 1, hi)

\* s[a:] of Python for a >= 0.
From(s, a) == Slice(s, a, Len(s))

\* s[:n] of Python for n >= 0.
Prefix(s, n) == Slice(s, 0, n)

\* s[-n:] of Python for n >= 0: the last n characters, the whole string when
\* n = 0 (s[-0:] is s[0:]) or n >= len(s).
Suffix(s, n) ==
    IF n = 0 \/ n >= Len(s) THEN s ELSE SubSeq(s, Len(s) - n + 1, Len(s))

\* s.startswith(p)
StartsWith(s, p) == Len(s) >= Len(p) /\ SubSeq(s, 1, Len(p)) = p

\* s.find(p): the lowest 0-based index where p occurs, -1 when it does not.
Find(s, p) ==
    LET hits == {k \in 0..(Len(s) - Len(p)) : SubSeq(s, k + 1, k + Len(p)) = p}
    IN  IF hits = {} THEN -1 ELSE CHOOSE k \in hits : \A j \in hits : k <= j

\* s.rfind(p): the highest 0-based index where p occurs, -1 when it does not.
RFind(s, p) ==
    LET hits == {k \in 0..(Len(s) - Len(p)) : SubSeq(s, k + 1, k + Len(p)) = p}
    IN  IF hits = {} THEN -1 ELSE CHOOSE k \in hits : \A j \in hits : k >= j

RECURSIVE LStrip(_)
LStrip(s) == IF s # <<>> /\ Head(s) = " " THEN LStrip(Tail(s)) ELSE s

RECURSIVE RStrip(_)
RStrip(s) ==
    IF s # <<>> /\ s[Len(s)] = " " THEN RStrip(SubSeq(s, 1, Len(s) - 1)) ELSE s

\* s.strip() for the blank character.
Strip(s) == RStrip(LStrip(s))

\* The decimal digits and their values.
DigitVal == [c \in {"0", "1", "2", "3", "4", "5", "6", "7", "8", "9"} |->
               CASE c = "0" -> 0 [] c = "1" -> 1 [] c = "2" -> 2 [] c = "3" -> 3
                 [] c = "4" -> 4 [] c = "5" -> 5 [] c = "6" -> 6 [] c = "7" -> 7
                 [] c = "8" -> 8 [] c = "9" -> 9]

IsDigits(s) == s # <<>> /\ \A k \in 1..Len(s) : s[k] \in DOMAIN DigitVal

RECURSIVE DigitsValue(_)
DigitsValue(s) ==
    IF s = <<>> THEN 0 ELSE 10 * DigitsValue(SubSeq(s, 1, Len(s) - 1)) + DigitVal[s[Len(s)]]

\* The outcome of a call that can raise: ok is FALSE when it raised.
Raised == [ok |-> FALSE, val |-> 0]
Returned(v) == [ok |-> TRUE, val |-> v]

\* int(s): an optional sign followed by decimal digits; ValueError otherwise.
ParseInt(s) ==
    IF IsDigits(s) THEN Returned(DigitsValue(s))
    ELSE IF s # <<>> /\ Head(s) = "-" /\ IsDigits(Tail(s)) THEN Returned(0 - DigitsValue(Tail(s)))
    ELSE IF s # <<>> /\ Head(s) = "+" /\ IsDigits(Tail(s)) THEN Returned(DigitsValue(Tail(s)))
    ELSE Raised

(***************************************************************************)
(* Type classification (check_name, get_type).                             *)
(***************************************************************************)

\* Python's None where a type tag or a string is expected.
None == "None"

\* The characters of the literal strings the code compares titles with.
INBOX == <<"I", "n", "b", "o", "x">>
HEADER_MARK == <<"*", "*", " ">>
UNHEADER_MARK == <<"!", "*", " ">>
HEADER_FLAG == <<"*">>
START_TOKEN == <<"s", "t", "a", "r", "t", "=">>
START_DUE_TOKEN == <<"s", "t", "a", "r", "t", "=", "d", "u", "e", "-">>

\* check_name(args, name).  The p-s and s-p suffixes are compared with the
\* last len(ss_suffix) characters of the name, as in the code.
check_name(a, name) ==
    LET len_suffix == <<Len(a.pp_suffix), Len(a.ss_suffix),
                        Len(a.ps_suffix), Len(a.sp_suffix)>>
    IN  IF name = INBOX THEN a.inbox
        ELSE IF Suffix(name, len_suffix[1]) = a.pp_suffix THEN "parallel"
        ELSE IF Suffix(name, len_suffix[2]) = a.ss_suffix THEN "sequential"
        ELSE IF Suffix(name, len_suffix[2]) = a.ps_suffix THEN "p-s"
        ELSE IF Suffix(name, len_suffix[2]) = a.sp_suffix THEN "s-p"
        ELSE IF a.ps_suffix = <<"/", "-">> /\ Suffix(name, 2) = <<"_", "-">> THEN "p-s"
        ELSE IF a.sp_suffix = <<"-", "/">> /\ Suffix(name, 2) = <<"-", "_">> THEN "s-p"
        ELSE IF a.pp_suffix = <<"/", "/">> /\ Suffix(name, 1) = <<"_">> THEN "parallel"
        ELSE None

\* get_type(args, object, key): the name of a project or section, the
\* content of a task, stripped of surrounding blanks.
get_type(a, title) == check_name(a, Strip(title))

\* get_project_type(args, project_object)
get_project_type(a, project) == get_type(a, project.name)

\* get_section_type(args, section_object); the section object is never
\* None in autodoist_magic (a section with id None stands for no section).
get_section_type(a, section) == get_type(a, section.name)

\* get_item_type without the walk up the parent links: the item's own type.
get_item_type_own(a, t, i, items, fuel) == get_type(a, t[i].content)

\* get_item_type(args, item, items): the item's own type, or the type of
\* the nearest typed ancestor found among the items of the section.  A
\* parent that is not among them raises IndexError, which is caught and
\* leaves the type None.  `fuel` is the depth of Python's call stack: when
\* it runs out RecursionError is raised and caught the same way.
RECURSIVE get_item_type(_, _, _, _, _)
get_item_type(a, t, i, items, fuel) ==
    LET item_type == get_type(a, t[i].content)
    IN  IF item_type = None /\ t[i].parent_id # 0
        THEN IF fuel = 0 \/ t[i].parent_id \notin items THEN None
             ELSE get_item_type(a, t, t[i].parent_id, items, fuel - 1)
        ELSE item_type

(***************************************************************************)
(* The label bookkeeping (add_label, remove_label).  A store is the part   *)
(* of the state these functions work on: the task objects and the two      *)
(* overview dictionaries.  overview_item_labels[id] is the very list       *)
(* object item.labels, so the dictionary is modelled by its set of keys    *)
(* and the value under a key is the task's current label list.             *)
(***************************************************************************)

Range(s) == {s[k] : k \in DOMAIN s}

\* list.remove(x): the list without the first occurrence of x.
RemoveFirst(s, x) ==
    LET k == CHOOSE j \in 1..Len(s) : s[j] = x /\ \A h \in 1..(j - 1) : s[h] # x
    IN  SubSeq(s, 1, k - 1) \o SubSeq(s, k + 1, Len(s))

\* overview_item_ids[id] += d, or = d when the key is missing.
Bump(ids, id, d) ==
    IF id \in DOMAIN ids THEN [ids EXCEPT ![id] = @ + d] ELSE ids @@ (id :> d)

add_label(st, i, label) ==
    IF label \notin Range(st.tasks[i].labels)
    THEN [tasks |-> [st.tasks EXCEPT ![i].labels = Append(@, label)],
          ids   |-> Bump(st.ids, i, 1),
          labs  |-> st.labs \cup {i}]
    ELSE st

\* remove_label emptying the label list.
remove_label_clearing(st, i, label) ==
    IF label \in Range(st.tasks[i].labels)
    THEN [tasks |-> [st.tasks EXCEPT ![i].labels = <<>>],
          ids   |-> Bump(st.ids, i, -1),
          labs  |-> st.labs \cup {i}]
    ELSE st

remove_label(st, i, label) ==
    IF label \in Range(st.tasks[i].labels)
    THEN [tasks |-> [st.tasks EXCEPT ![i].labels = RemoveFirst(@, label)],
          ids   |-> Bump(st.ids, i, -1),
          labs  |-> st.labs \cup {i}]
    ELSE st

\* remove_label applied to every task of a list, in order.
RECURSIVE remove_label_all(_, _, _)
remove_label_all(st, list, label) ==
    IF list = <<>> THEN st
    ELSE remove_label_all(remove_label(st, Head(list), label), Tail(list), label)

(***************************************************************************)
(* The objects of the client library.                                      *)
(***************************************************************************)

\* The attributes and methods a Task object has.  The code also uses
\* item.update(...), item.data, item.date_old and item['...'], none of
\* which exists: each use raises AttributeError or TypeError.
TaskAttributes ==
    {"id", "parent_id", "section_id", "project_id", "content", "order",
     "is_completed", "due", "labels"}

HasAttr(name) == name \in TaskAttributes

\* Whether item['key'] works on a Task, Section or Project object.
Subscriptable == "__getitem__" \in TaskAttributes

\* item.due is None
NoDue == [present |-> FALSE, date |-> 0, is_recurring |-> FALSE]

Due(date, recurring) == [present |-> TRUE, date |-> date, is_recurring |-> recurring]

\* create_none_section(): the section that holds the items without section.
create_none_section ==
    [id |-> 0, name |-> <<"N", "o", "n", "e">>, project_id |-> 0]

\* check_header(level): the two flags, or an exception: when the name or
\* content starts with a marker the flag is set and level.update(...) is
\* called to strip the marker, which raises AttributeError (uncaught).
check_header(title) ==
    LET header_all_in_level == Prefix(title, 3) = HEADER_MARK
        unheader_all_in_level == Prefix(title, 3) = UNHEADER_MARK
    IN  [raised |-> (header_all_in_level \/ unheader_all_in_level) /\ ~HasAttr("update"),
         header_all |-> header_all_in_level,
         unheader_all |-> unheader_all_in_level]

(***************************************************************************)
(* The clock.  datetime.today() is a day and a time of day; a date parsed  *)
(* from a string is the midnight that starts its day.                      *)
(***************************************************************************)

\* The hours of a day: the time of day is datetime.today().hour, hour 0
\* standing for midnight sharp and every other hour for a later time.
HoursPerDay == 24

Ticks(t) == t.day * HoursPerDay + t.hour

Midnight(day) == [day |-> day, hour |-> 0]

\* (a - b).days of two datetimes: timedelta normalises to a whole number of
\* days, rounded down, and a non-negative rest.
DaysBetween(a, b) ==
    LET d == Ticks(a) - Ticks(b)
    IN  IF d >= 0 THEN d \div HoursPerDay ELSE 0 - ((0 - d + HoursPerDay - 1) \div HoursPerDay)

\* datetime.strptime(s, args.dateformat) for a start token.  The date format
\* is abstracted to a day number written in decimal digits; any other text
\* raises ValueError.
ParseDate(s) == IF IsDigits(s) THEN Returned(DigitsValue(s)) ELSE Raised

(***************************************************************************)
(* The hierarchy of one section (autodoist_magic, lines 548-565).          *)
(***************************************************************************)

\* The sort by sibling order alone.
KeyLess_by_order(t, i, j) ==
    \/ t[i].order < t[j].order
    \/ t[i].order = t[j].order /\ i < j

\* The sort key of line 552: (int(parent_id or "0"), order); sorted() is
\* stable, and the list it sorts is in the order of api.get_tasks(), taken
\* to be by id.
KeyLess(t, i, j) ==
    \/ t[i].parent_id < t[j].parent_id
    \/ t[i].parent_id = t[j].parent_id /\ t[i].order < t[j].order
    \/ t[i].parent_id = t[j].parent_id /\ t[i].order = t[j].order /\ i < j

RECURSIVE SortedItems(_, _)
SortedItems(t, S) ==
    IF S = {} THEN <<>>
    ELSE LET first == CHOOSE i \in S : \A j \in S \ {i} : KeyLess(t, i, j)
         IN  <<first>> \o SortedItems(t, S \ {first})

\* The items of a section of a project, sorted (lines 525, 549-553).
SectionItems(t, project, section) ==
    SortedItems(t, {i \in DOMAIN t : t[i].project_id = project.id
                                     /\ t[i].section_id = section.id})

\* filter(pred, list) for a list of task ids.
RECURSIVE FilterSeq(_, _)
FilterSeq(list, keep) ==
    IF list = <<>> THEN <<>>
    ELSE IF Head(list) \in keep THEN <<Head(list)>> \o FilterSeq(Tail(list), keep)
    ELSE FilterSeq(Tail(list), keep)

\* child_items_all of line 562: the items of the section whose parent is i.
ChildItemsAll(t, list, i) ==
    FilterSeq(list, {c \in Range(list) : t[c].parent_id = i})

\* child_items of line 564: those of them that are not completed.
ChildItems(t, list, i) ==
    FilterSeq(list, {c \in Range(list) : t[c].parent_id = i /\ ~t[c].is_completed})

(***************************************************************************)
(* The labelling logic of one item (autodoist_magic, lines 601-787).       *)
(***************************************************************************)

IsHeader(t, i) == StartsWith(t[i].content, HEADER_FLAG)

HasLabel(t, i, label) == label \in Range(t[i].labels)

\* The rule for a parentless item with the section and project gates tried
\* before the item's own type.
root_rule_gated(st, ffs, ffp, ht, i, label) ==
    LET labelled ==
            IF ht[2] # None
            THEN IF ht[2] \in {"sequential", "s-p"} THEN ~ffs
                 ELSE ht[2] \in {"parallel", "p-s"}
            ELSE IF ht[3] # None
            THEN IF ht[3] \in {"sequential", "s-p"} THEN ~ffp
                 ELSE ht[3] \in {"parallel", "p-s"}
            ELSE ht[1] # None
    IN  IF st.tasks[i].parent_id # 0
        THEN [st |-> st, ffs |-> ffs, ffp |-> ffp]
        ELSE [st  |-> IF labelled THEN add_label(st, i, label) ELSE st,
              ffs |-> ffs \/ ht[2] # None,
              ffp |-> ffp \/ ht[3] # None]

\* The rule for a parentless item without the first-found gates: every
\* parentless item of a typed item, section or project is labelled.
root_rule_ungated(st, ffs, ffp, ht, i, label) ==
    IF st.tasks[i].parent_id # 0
    THEN [st |-> st, ffs |-> ffs, ffp |-> ffp]
    ELSE [st  |-> IF \E n \in 1..3 : ht[n] # None THEN add_label(st, i, label) ELSE st,
          ffs |-> ffs \/ ht[2] # None,
          ffp |-> ffp \/ ht[3] # None]

\* Lines 620-658: the rule for a parentless item.  ht is hierarchy_types
\* (item type, section type, project type); the result is the store and
\* the two first-found flags.
root_rule(st, ffs, ffp, ht, i, label) ==
    LET labelled ==
            IF ht[1] # None THEN TRUE
            ELSE IF ht[2] # None
                 THEN IF ht[2] \in {"sequential", "s-p"} THEN ~ffs
                      ELSE ht[2] \in {"parallel", "p-s"}
            ELSE IF ht[3] # None
                 THEN IF ht[3] \in {"sequential", "s-p"} THEN ~ffp
                      ELSE ht[3] \in {"parallel", "p-s"}
            ELSE FALSE
    IN  IF st.tasks[i].parent_id # 0
        THEN [st |-> st, ffs |-> ffs, ffp |-> ffp]
        ELSE [st  |-> IF labelled THEN add_label(st, i, label) ELSE st,
              ffs |-> ffs \/ ht[2] # None,
              ffp |-> ffp \/ ht[3] # None]

\* The sequential loop without the clean-up of the other children.
RECURSIVE pass_down_no_clean(_, _, _, _)
pass_down_no_clean(st, i, children, label) ==
    IF children = <<>> THEN st
    ELSE LET child_item == Head(children)
         IN  IF ~IsHeader(st.tasks, child_item)
                /\ ~st.tasks[child_item].is_completed /\ HasLabel(st.tasks, i, label)
             THEN pass_down_no_clean(
                      remove_label(add_label(st, child_item, label), i, label),
                      i, Tail(children), label)
             ELSE pass_down_no_clean(st, i, Tail(children), label)

\* Lines 666-681: the loop over the children of a sequential item.
RECURSIVE pass_down(_, _, _, _)
pass_down(st, i, children, label) ==
    IF children = <<>> THEN st
    ELSE LET child_item == Head(children)
         IN  IF IsHeader(st.tasks, child_item)
             THEN pass_down(st, i, Tail(children), label)
             ELSE IF ~st.tasks[child_item].is_completed /\ HasLabel(st.tasks, i, label)
             THEN pass_down(remove_label(add_label(st, child_item, label), i, label),
                            i, Tail(children), label)
             ELSE pass_down(remove_label(st, child_item, label),
                            i, Tail(children), label)

\* The parallel loop that stops at the first child it labels.
RECURSIVE fan_out_first(_, _, _)
fan_out_first(st, children, label) ==
    IF children = <<>> THEN st
    ELSE LET child_item == Head(children)
         IN  IF IsHeader(st.tasks, child_item) \/ st.tasks[child_item].is_completed
             THEN fan_out_first(st, Tail(children), label)
             ELSE add_label(st, child_item, label)

\* Lines 687-695: the loop over the children of a parallel item.
RECURSIVE fan_out(_, _, _)
fan_out(st, children, label) ==
    IF children = <<>> THEN st
    ELSE LET child_item == Head(children)
         IN  IF IsHeader(st.tasks, child_item)
             THEN fan_out(st, Tail(children), label)
             ELSE IF ~st.tasks[child_item].is_completed
             THEN fan_out(add_label(st, child_item, label), Tail(children), label)
             ELSE fan_out(st, Tail(children), label)

\* The active type taken from the item type alone.
ActiveType_item_only(ht) == ht[1]

\* Line 663: the first type of hierarchy_types that is not None.
ActiveType(ht) ==
    IF ht[1] # None THEN ht[1] ELSE IF ht[2] # None THEN ht[2] ELSE ht[3]

\* The propagation with the parent keeping its label in the sequential case.
propagate_keep(st, ht, i, child_items, label) ==
    LET active_type == ActiveType(ht)
        first == FilterSeq(child_items,
                           {c \in Range(child_items) : ~IsHeader(st.tasks, c)})
    IN  IF Len(child_items) > 0
        THEN IF active_type \in {"sequential", "p-s"}
             THEN IF HasLabel(st.tasks, i, label) /\ first # <<>>
                  THEN remove_label_all(add_label(st, Head(first), label), Tail(first), label)
                  ELSE remove_label_all(st, first, label)
             ELSE IF active_type = "parallel"
                     \/ (active_type = "s-p" /\ HasLabel(st.tasks, i, label))
             THEN fan_out(remove_label(st, i, label), child_items, label)
             ELSE st
        ELSE st

\* Lines 660-695: the propagation of the label to the children.
propagate(st, ht, i, child_items, label) ==
    LET active_type == ActiveType(ht)
    IN  IF Len(child_items) > 0
        THEN IF active_type \in {"sequential", "p-s"}
             THEN pass_down(st, i, child_items, label)
             ELSE IF active_type = "parallel"
                     \/ (active_type = "s-p" /\ HasLabel(st.tasks, i, label))
             THEN fan_out(remove_label(st, i, label), child_items, label)
             ELSE st
        ELSE st

\* Lines 699-712: the hide-future gate.  "remove": the label is removed and
\* the item is done; "skip": an exception ended the item's processing;
\* "go": the start gates follow.  With hide_future > 0 the test reads
\* item.data, which a Task does not have.
hide_future_gate(a, now, item) ==
    IF a.hide_future > 0
    THEN IF ~HasAttr("data") THEN "skip"
         ELSE IF item.due.present
                 /\ DaysBetween(Midnight(item.due.date), now) >= a.hide_future
         THEN "remove"
         ELSE "go"
    ELSE "go"

\* Lines 715-741: the gate of a start=<date> token.  "remove", "skip" (the
\* date did not parse) or "go".
start_gate(a, now, item) ==
    LET content == item.content
        f1 == Find(content, START_TOKEN)
        f2 == Find(content, START_DUE_TOKEN)
        f_end == Find(From(content, f1 + 6), <<" ">>)
        start_text == IF f_end > -1 THEN Slice(content, f1 + 6, f1 + 6 + f_end)
                      ELSE From(content, f1 + 6)
        start_date == ParseDate(start_text)
    IN  IF f1 > -1 /\ f2 = -1
        THEN IF ~start_date.ok THEN "skip"
             ELSE IF DaysBetween(now, Midnight(start_date.val)) < 0 THEN "remove"
             ELSE "go"
        ELSE "go"

\* The local variable td of autodoist_magic before its first assignment.
Unbound == [bound |-> FALSE, days |-> 0]

\* Lines 744-787: the gate of a start=due-<N>d or start=due-<N>w token.
\* "remove", "skip" (no due date or no number) or "go", and the value td is
\* left with.  td is assigned only when a unit is found; when none is, the
\* value a previous item left in it is used, and NameError is raised (and
\* caught) when there is none.
start_due_gate(a, now, item, td) ==
    LET content == item.content
        f == Find(content, START_DUE_TOKEN)
        f1a == Find(content, <<"d">>)
        f1b == RFind(content, <<"d">>)
        f2 == Find(content, <<"w">>)
        f_end == Find(From(content, f + 10), <<" ">>)
        offset_text == IF f_end > -1 THEN Slice(content, f + 10, f + 10 + f_end - 1)
                       ELSE Slice(content, f + 10, Len(content) - 1)
        offset == ParseInt(offset_text)
        in_days == f1a # f1b /\ f1b > -1
        in_weeks == ~in_days /\ f2 > -1
        new_td == IF in_days THEN [bound |-> TRUE, days |-> offset.val]
                  ELSE IF in_weeks THEN [bound |-> TRUE, days |-> 7 * offset.val]
                  ELSE td
    IN  IF f > -1
        THEN IF ~item.due.present THEN [out |-> "skip", td |-> td]
             ELSE IF (in_days \/ in_weeks) /\ ~offset.ok THEN [out |-> "skip", td |-> td]
             ELSE IF ~new_td.bound THEN [out |-> "skip", td |-> td]
             ELSE IF DaysBetween(now, Midnight(item.due.date - new_td.days)) < 0
             THEN [out |-> "remove", td |-> new_td]
             ELSE [out |-> "go", td |-> new_td]
        ELSE [out |-> "go", td |-> td]

\* Lines 697-787: the three gates in turn.  Every outcome ends the item's
\* processing; the label is removed from the item alone by the hide-future
\* gate, from the item and its non-completed children by a start gate.
gates(st, a, now, i, child_items, label, td) ==
    LET item == st.tasks[i]
        hf == hide_future_gate(a, now, item)
        sg == start_gate(a, now, item)
        dg == start_due_gate(a, now, item, td)
        removed == remove_label_all(remove_label(st, i, label), child_items, label)
    IN  IF hf = "remove" THEN [st |-> remove_label(st, i, label), td |-> td]
        ELSE IF hf = "skip" THEN [st |-> st, td |-> td]
        ELSE IF sg = "remove" THEN [st |-> removed, td |-> td]
        ELSE IF sg = "skip" THEN [st |-> st, td |-> td]
        ELSE IF dg.out = "remove" THEN [st |-> removed, td |-> dg.td]
        ELSE [st |-> st, td |-> dg.td]

(***************************************************************************)
(* Regeneration of recurring lists (check_regen_mode,                      *)
(* run_recurring_lists_logic).  rg is the regeneration state of the        *)
(* cycle: date_old and r_tag are the attributes of those names (-1: the    *)
(* object has no such attribute), mode_used the mode resolved for a root   *)
(* (-2: none was resolved), warned the roots a conflict was reported for,  *)
(* reopened the items that were completed and reopened.                    *)
(***************************************************************************)

\* args.regeneration and args.end when the option is not given (None).
NoRegen == -1
NoEnd == 0

\* args.regen_label_names (line 836), indexed from 0 as in the code.
regen_label_names == <<"Regen_off", "Regen_all", "Regen_all_if_completed">>

\* check_regen_mode(api, item, regen_label_names): the index of the item's
\* regeneration label, or None (-1) when it has none or more than one; a
\* warning is logged when it has more than one.
check_regen_mode(labels) ==
    LET overlap == Range(labels) \cap Range(regen_label_names)
    IN  IF Cardinality(overlap) > 1 THEN [mode |-> NoRegen, warned |-> TRUE]
        ELSE IF overlap = {} THEN [mode |-> NoRegen, warned |-> FALSE]
        ELSE [mode |-> (CHOOSE k \in 1..3 : regen_label_names[k] \in overlap) - 1,
              warned |-> FALSE]

\* Lines 395-467: what a detected change of the due date does.
rollover(x, a, now, i, child_items, child_items_all) ==
    LET item == x.tasks[i]
        checked == check_regen_mode(item.labels)
        regen_mode == IF checked.mode = NoRegen THEN a.regeneration ELSE checked.mode
        give_regen_tag == regen_mode = 1 \/ (regen_mode = 2 /\ child_items = <<>>)
        rg1 == [x.rg EXCEPT !.date_old[i] = item.due.date]
        rg2 == IF a.regeneration # NoRegen
               THEN [rg1 EXCEPT !.mode_used[i] = regen_mode,
                                !.warned = IF checked.warned THEN @ \cup {i} ELSE @,
                                !.r_tag = [c \in DOMAIN @ |->
                                             IF give_regen_tag /\ c \in Range(child_items_all)
                                             THEN 1 ELSE @[c]]]
               ELSE rg1
        \* lines 437-451: od is read from date_old, which line 395 has just set
        days_difference == DaysBetween(Midnight(item.due.date), Midnight(now.day))
        days_overdue == DaysBetween(Midnight(now.day), Midnight(rg2.date_old[i]))
        fix == a.end # NoEnd /\ a.end - now.hour > 0
               /\ days_overdue >= 1 /\ days_difference = 1
    IN  [rg |-> rg2,
         tasks |-> IF fix THEN [x.tasks EXCEPT ![i].due.date = now.day] ELSE x.tasks]

\* run_recurring_lists_logic.  x is [rg, tasks].  For a parentless
\* recurring item the comparison with item.date_old raises AttributeError;
\* the handler of that exception subscripts the item, which raises
\* TypeError, and the outer handler swallows it.  For an item with a
\* parent, item['r_tag'] raises TypeError; were it readable, the next
\* statement, item.update(is_completed), names an undefined variable and
\* raises NameError before anything is changed.
run_recurring_lists_logic(x, a, now, i, child_items, child_items_all) ==
    LET item == x.tasks[i]
        root_part ==
            IF item.parent_id = 0 /\ item.due.present /\ item.due.is_recurring
            THEN IF HasAttr("date_old") /\ HasAttr("update") /\ Subscriptable
                 THEN IF item.due.date # x.rg.date_old[i]
                      THEN rollover(x, a, now, i, child_items, child_items_all)
                      ELSE x
                 ELSE IF Subscriptable
                      THEN [x EXCEPT !.rg.date_old[i] = item.due.date]
                      ELSE x
            ELSE x
        \* lines 482-495 change nothing, whatever item['r_tag'] holds
        child_part == root_part
    IN  child_part

(***************************************************************************)
(* The state.                                                              *)
(***************************************************************************)

VARIABLES
    args,                   \* the parsed command line
    now,                    \* datetime.today(): [day, hour]
    projects,               \* api.get_projects()
    sections,               \* api.get_sections()
    server,                 \* the tasks as the service holds them
    tasks,                  \* the Task objects of api.get_tasks(), by id
    fetched,                \* the tasks as this cycle fetched them
    overview_item_ids,      \* id -> net count of label additions and removals
    overview_item_labels,   \* the ids with an entry (the entry is item.labels)
    rg,                     \* the regeneration state (see above)
    td,                     \* the local variable td of autodoist_magic
    pc,                     \* the position of the cycle
    proj,                   \* the index of the current project
    secs,                   \* the sections of the project still to be done
    project_type,
    section_type,
    first_found_project,
    first_found_section,
    items,                  \* the sorted items of the current section
    k,                      \* the index in items of the current item
    hierarchy_types,        \* of the current item (line 617)
    writes,                 \* the update_task calls of this cycle's flush
    history,                \* per finished cycle: the tasks fetched and left, the writes
    cycles                  \* the cycles the main loop still runs

vars == <<args, now, projects, sections, server, tasks, fetched, overview_item_ids,
          overview_item_labels, rg, td, pc, proj, secs, project_type, section_type,
          first_found_project, first_found_section, items, k, hierarchy_types,
          writes, history, cycles>>

config == <<args, now, projects, sections>>
cursor == <<proj, secs, project_type, section_type, first_found_project,
            first_found_section, items, k, hierarchy_types>>
store == <<tasks, overview_item_ids, overview_item_labels>>

\* The store add_label and remove_label work on.
Store == [tasks |-> tasks, ids |-> overview_item_ids, labs |-> overview_item_labels]

SetStore(st) ==
    /\ tasks' = st.tasks
    /\ overview_item_ids' = st.ids
    /\ overview_item_labels' = st.labs

NoTypes == <<None, None, None>>

\* The regeneration state of objects fresh from the library.
FreshRegen(ids) ==
    [date_old  |-> [i \in ids |-> IF HasAttr("date_old") THEN 0 ELSE -1],
     r_tag     |-> [i \in ids |-> IF HasAttr("r_tag") THEN 0 ELSE -1],
     mode_used |-> [i \in ids |-> -2],
     warned    |-> {},
     reopened  |-> {}]

\* The label lists of a set of tasks.
Labels(t) == [i \in DOMAIN t |-> t[i].labels]

(***************************************************************************)
(* The cycle: autodoist_magic, then update_labels (main, lines 860-885).   *)
(***************************************************************************)

\* Lines 503-508: the dictionaries are preallocated and the data fetched.
Fetch ==
    /\ pc = "start"
    /\ tasks' = server
    /\ fetched' = server
    /\ overview_item_ids' = <<>>
    /\ overview_item_labels' = {}
    /\ rg' = FreshRegen(DOMAIN server)
    /\ td' = Unbound
    /\ proj' = 0
    /\ secs' = <<>>
    /\ items' = <<>>
    /\ k' = 0
    /\ project_type' = None
    /\ section_type' = None
    /\ first_found_project' = FALSE
    /\ first_found_section' = FALSE
    /\ hierarchy_types' = NoTypes
    /\ writes' = {}
    /\ pc' = "project"
    /\ UNCHANGED <<config, server, history, cycles>>

\* Lines 510-532: the next project, or the return of autodoist_magic.
NextProject ==
    /\ pc = "project"
    /\ IF proj = Len(projects)
       THEN /\ pc' = "flush"
            /\ UNCHANGED cursor
       ELSE LET project == projects[proj + 1]
                real == FilterSeq([n \in 1..Len(sections) |-> n],
                                  {n \in 1..Len(sections) :
                                      sections[n].project_id = project.id})
            IN  IF check_header(project.name).raised
                THEN /\ pc' = "crashed"
                     /\ UNCHANGED cursor
                ELSE /\ proj' = proj + 1
                     /\ first_found_project' = FALSE
                     /\ project_type' = get_project_type(args, project)
                     /\ secs' = <<create_none_section>>
                                \o [n \in 1..Len(real) |-> sections[real[n]]]
                     /\ pc' = "section"
                     /\ UNCHANGED <<section_type, first_found_section, items, k,
                                    hierarchy_types>>
    /\ UNCHANGED <<config, server, store, fetched, rg, td, writes, history, cycles>>

\* Lines 534-556: the next section of the project, or the next project.
NextSection ==
    /\ pc = "section"
    /\ IF secs = <<>>
       THEN /\ pc' = "project"
            /\ UNCHANGED cursor
       ELSE LET section == Head(secs)
            IN  IF check_header(section.name).raised
                THEN /\ pc' = "crashed"
                     /\ UNCHANGED cursor
                ELSE /\ secs' = Tail(secs)
                     /\ first_found_section' = FALSE
                     /\ section_type' = get_section_type(args, section)
                     /\ items' = SectionItems(tasks, projects[proj], section)
                     /\ k' = 1
                     /\ pc' = "item"
                     /\ UNCHANGED <<proj, project_type, first_found_project,
                                    hierarchy_types>>
    /\ UNCHANGED <<config, server, store, fetched, rg, td, writes, history, cycles>>

\* The depth get_item_type can recurse to before RecursionError; any depth
\* of at least the number of tasks gives the same result.
RecursionDepth(t) == Cardinality(DOMAIN t)

\* The head of the loop body with a completed item treated as a header is:
\* its label is removed before it is skipped.
ItemBegin_cleaning ==
    /\ pc = "item"
    /\ IF k > Len(items)
       THEN /\ pc' = "section"
            /\ UNCHANGED <<store, rg, k, hierarchy_types, first_found_section,
                           first_found_project>>
       ELSE LET i == items[k]
                child_items_all == ChildItemsAll(tasks, items, i)
                child_items == ChildItems(tasks, items, i)
                x == IF args.regeneration # NoRegen \/ args.end # NoEnd
                     THEN run_recurring_lists_logic([rg |-> rg, tasks |-> tasks], args, now,
                                                    i, child_items, child_items_all)
                     ELSE [rg |-> rg, tasks |-> tasks]
                st == [Store EXCEPT !.tasks = x.tasks]
                item_type == get_item_type(args, x.tasks, i, Range(items),
                                           RecursionDepth(x.tasks))
                ht == <<item_type, section_type, project_type>>
                r == root_rule(st, first_found_section, first_found_project, ht, i,
                               args.label)
            IN  IF check_header(tasks[i].content).raised
                THEN /\ pc' = "crashed"
                     /\ UNCHANGED <<store, rg, k, hierarchy_types, first_found_section,
                                    first_found_project>>
                ELSE /\ rg' = x.rg
                     /\ IF args.label = None \/ x.tasks[i].is_completed
                        THEN /\ SetStore(IF args.label = None THEN st
                                         ELSE remove_label(st, i, args.label))
                             /\ k' = k + 1
                             /\ pc' = "item"
                             /\ UNCHANGED <<hierarchy_types, first_found_section,
                                            first_found_project>>
                        ELSE IF IsHeader(x.tasks, i)
                        THEN /\ SetStore(remove_label(st, i, args.label))
                             /\ k' = k + 1
                             /\ pc' = "item"
                             /\ UNCHANGED <<hierarchy_types, first_found_section,
                                            first_found_project>>
                        ELSE /\ SetStore(r.st)
                             /\ first_found_section' = r.ffs
                             /\ first_found_project' = r.ffp
                             /\ hierarchy_types' = ht
                             /\ k' = k
                             /\ pc' = "prop"
    /\ UNCHANGED <<config, server, fetched, td, proj, secs, project_type, section_type,
                   items, writes, history, cycles>>

\* Lines 556-658: the head of the loop body for the next item of the
\* section: the child lists, the header check, the recurring lists logic,
\* the skip of completed items and headers, the item type and the rule for
\* parentless items.  At the end of the list the section is done.
ItemBegin ==
    /\ pc = "item"
    /\ IF k > Len(items)
       THEN /\ pc' = "section"
            /\ UNCHANGED <<store, rg, k, hierarchy_types, first_found_section,
                           first_found_project>>
       ELSE LET i == items[k]
                child_items_all == ChildItemsAll(tasks, items, i)
                child_items == ChildItems(tasks, items, i)
                x == IF args.regeneration # NoRegen \/ args.end # NoEnd
                     THEN run_recurring_lists_logic([rg |-> rg, tasks |-> tasks], args, now,
                                                    i, child_items, child_items_all)
                     ELSE [rg |-> rg, tasks |-> tasks]
                st == [Store EXCEPT !.tasks = x.tasks]
                item_type == get_item_type(args, x.tasks, i, Range(items),
                                           RecursionDepth(x.tasks))
                ht == <<item_type, section_type, project_type>>
                r == root_rule(st, first_found_section, first_found_project, ht, i,
                               args.label)
            IN  IF check_header(tasks[i].content).raised
                THEN /\ pc' = "crashed"
                     /\ UNCHANGED <<store, rg, k, hierarchy_types, first_found_section,
                                    first_found_project>>
                ELSE /\ rg' = x.rg
                     /\ IF args.label = None \/ x.tasks[i].is_completed
                        THEN /\ SetStore(st)
                             /\ k' = k + 1
                             /\ pc' = "item"
                             /\ UNCHANGED <<hierarchy_types, first_found_section,
                                            first_found_project>>
                        ELSE IF IsHeader(x.tasks, i)
                        THEN /\ SetStore(remove_label(st, i, args.label))
                             /\ k' = k + 1
                             /\ pc' = "item"
                             /\ UNCHANGED <<hierarchy_types, first_found_section,
                                            first_found_project>>
                        ELSE /\ SetStore(r.st)
                             /\ first_found_section' = r.ffs
                             /\ first_found_project' = r.ffp
                             /\ hierarchy_types' = ht
                             /\ k' = k
                             /\ pc' = "prop"
    /\ UNCHANGED <<config, server, fetched, td, proj, secs, project_type, section_type,
                   items, writes, history, cycles>>

\* Lines 660-695: the label is passed down to the children.
Propagate ==
    /\ pc = "prop"
    /\ SetStore(propagate(Store, hierarchy_types, items[k],
                          ChildItems(tasks, items, items[k]), args.label))
    /\ pc' = "gate"
    /\ UNCHANGED <<config, server, fetched, rg, td, cursor, writes, history, cycles>>

\* Lines 697-787: the date gates end the loop body.
Gates ==
    /\ pc = "gate"
    /\ LET g == gates(Store, args, now, items[k], ChildItems(tasks, items, items[k]),
                      args.label, td)
       IN  /\ SetStore(g.st)
           /\ td' = g.td
    /\ k' = k + 1
    /\ pc' = "item"
    /\ UNCHANGED <<config, server, fetched, rg, proj, secs, project_type, section_type,
                   first_found_project, first_found_section, items, hierarchy_types,
                   writes, history, cycles>>

\* update_labels without the filter on the counters: one call for every
\* id the pass touched.
update_labels_unfiltered(ids, t) ==
    {[task_id |-> id, labels |-> t[id].labels] : id \in DOMAIN ids}

\* update_labels(api, overview_item_ids, overview_item_labels): one
\* update_task call for each id whose count is not 0, with the list the
\* labels dictionary holds for it.
update_labels(ids, t) ==
    {[task_id |-> id, labels |-> t[id].labels] : id \in {j \in DOMAIN ids : ids[j] # 0}}

\* Lines 867-885: the flush, and the end of the cycle.
UpdateLabels ==
    /\ pc = "flush"
    /\ LET w == IF args.label # None THEN update_labels(overview_item_ids, tasks) ELSE {}
       IN  /\ writes' = w
           /\ server' = [i \in DOMAIN server |->
                           IF \E c \in w : c.task_id = i
                           THEN [server[i] EXCEPT !.labels = tasks[i].labels]
                           ELSE server[i]]
           /\ history' = Append(history, [fetched |-> fetched,
                                          left |-> tasks,
                                          writes |-> w])
    /\ cycles' = cycles - 1
    /\ pc' = IF cycles = 1 THEN "done" ELSE "start"
    /\ UNCHANGED <<config, store, fetched, rg, td, cursor>>

Next ==
    \/ Fetch
    \/ NextProject
    \/ NextSection
    \/ ItemBegin
    \/ Propagate
    \/ Gates
    \/ UpdateLabels

\* The state the main loop starts in, for a snapshot [projects, sections,
\* tasks] of the service, a configuration, a time and a number of cycles.
Start(snapshot, a, t, n) ==
    /\ args = a
    /\ now = t
    /\ projects = snapshot.projects
    /\ sections = snapshot.sections
    /\ server = snapshot.tasks
    /\ tasks = snapshot.tasks
    /\ fetched = snapshot.tasks
    /\ overview_item_ids = <<>>
    /\ overview_item_labels = {}
    /\ rg = FreshRegen(DOMAIN snapshot.tasks)
    /\ td = Unbound
    /\ pc = "start"
    /\ proj = 0
    /\ secs = <<>>
    /\ project_type = None
    /\ section_type = None
    /\ first_found_project = FALSE
    /\ first_found_section = FALSE
    /\ items = <<>>
    /\ k = 0
    /\ hierarchy_types = NoTypes
    /\ writes = {}
    /\ history = <<>>
    /\ cycles = n

(***************************************************************************)
(* The snapshots and configurations the cycle is run on.                   *)
(***************************************************************************)

\* The number of tasks of a snapshot.
NItems == 3

Ids == 1..NItems

\* The ancestor n parent links up from i (0: above the root).
RECURSIVE Up(_, _, _)
Up(p, i, n) == IF n = 0 \/ i = 0 THEN i ELSE Up(p, p[i], n - 1)

\* The parent links that form a forest, for every assignment of ids.
Forests == {p \in [Ids -> 0..NItems] : \A i \in Ids : Up(p, i, NItems) = 0}

\* The defaults of the command line (lines 802-831), with labelling on.
NEXT_ACTION == "next_action"

DefaultArgs ==
    [label |-> NEXT_ACTION, regeneration |-> NoRegen, end |-> NoEnd, hide_future |-> 0,
     inbox |-> None,
     pp_suffix |-> <<"/", "/">>, ss_suffix |-> <<"-", "-">>,
     ps_suffix |-> <<"/", "-">>, sp_suffix |-> <<"-", "/">>]

\* Titles.
PLAIN == <<"A">>
PARALLEL == <<"T", "/", "/">>
SEQUENTIAL == <<"T", "-", "-">>
PAR_SEQ == <<"T", "/", "-">>
SEQ_PAR == <<"T", "-", "/">>
HEADER == <<"*", " ", "H">>

\* What a task of a snapshot can be: its title, whether it is completed, its
\* due date and its labels.
KindOf(content, completed, due, labels) ==
    [content |-> content, is_completed |-> completed, due |-> due, labels |-> labels]

\* A task without due date that the snapshot shows with the next-action
\* label or with no label.
Kind(content, completed, labelled) ==
    KindOf(content, completed, NoDue, IF labelled THEN <<NEXT_ACTION>> ELSE <<>>)

PropagationKinds ==
    {Kind(PLAIN, c, l) : c \in BOOLEAN, l \in BOOLEAN}
    \cup {Kind(t, FALSE, FALSE) : t \in {PARALLEL, SEQUENTIAL, PAR_SEQ, SEQ_PAR}}
    \cup {Kind(HEADER, FALSE, l) : l \in BOOLEAN}

\* A project with one section: the names of the two, and whether the tasks
\* are in the section (id 1) or in none (id 0).
Context(project_name, section_name, in_section) ==
    [project_name |-> project_name, section_name |-> section_name,
     section_id |-> IF in_section THEN 1 ELSE 0]

PropagationContexts ==
    {Context(<<"P">>, <<"S">>, FALSE),
     Context(<<"P", "-", "-">>, <<"S">>, FALSE),
     Context(<<"P", "/", "/">>, <<"S", "-", "/">>, TRUE)}

\* The snapshot of one project: parent links p, sibling order by id or by
\* descending id, and the kind of every task.
Snapshot(ctx, p, descending, kind) ==
    [projects |-> <<[id |-> 1, name |-> ctx.project_name]>>,
     sections |-> <<[id |-> 1, project_id |-> 1, name |-> ctx.section_name]>>,
     tasks |-> [i \in Ids |->
                  [id |-> i, parent_id |-> p[i], section_id |-> ctx.section_id,
                   project_id |-> 1, content |-> kind[i].content,
                   order |-> IF descending THEN NItems + 1 - i ELSE i,
                   is_completed |-> kind[i].is_completed, due |-> kind[i].due,
                   labels |-> kind[i].labels]]]

\* Some time in the morning of day 5.
Morning == [day |-> 5, hour |-> 9]

\* One cycle of the default configuration over every snapshot of
\* PropagationKinds and PropagationContexts.
Init ==
    \E ctx \in PropagationContexts, p \in Forests, descending \in BOOLEAN,
       kind \in [Ids -> PropagationKinds] :
        Start(Snapshot(ctx, p, descending, kind), DefaultArgs, Morning, 1)

Spec == Init /\ [][Next]_vars

\* Two cycles in a row, nothing changing at the service between them but
\* the label writes of the first.
TwoPassKinds ==
    {Kind(PLAIN, FALSE, l) : l \in BOOLEAN}
    \cup {Kind(t, FALSE, FALSE) : t \in {PARALLEL, SEQUENTIAL}}

TwoPassContexts ==
    {Context(<<"P">>, <<"S">>, FALSE), Context(<<"P", "-", "-">>, <<"S">>, FALSE)}

InitTwoPass ==
    \E ctx \in TwoPassContexts, p \in Forests, kind \in [Ids -> TwoPassKinds] :
        Start(Snapshot(ctx, p, FALSE, kind), DefaultArgs, Morning, 2)

SpecTwoPass == InitTwoPass /\ [][Next]_vars

\* One cycle over snapshots with start tokens and due dates, with and
\* without the hide-future option (7 days), today being day 5.
START_LATER == <<"S", " ", "s", "t", "a", "r", "t", "=", "9">>
START_TODAY == <<"S", " ", "s", "t", "a", "r", "t", "=", "5">>

HideFutureDays == 7

GateKinds ==
    {Kind(PLAIN, FALSE, l) : l \in BOOLEAN}
    \cup {KindOf(PARALLEL, FALSE, d, <<>>) : d \in {NoDue, Due(8, FALSE), Due(15, FALSE)}}
    \cup {Kind(START_LATER, FALSE, FALSE), Kind(START_TODAY, FALSE, TRUE)}

GateContexts ==
    {Context(<<"P">>, <<"S">>, FALSE), Context(<<"P", "/", "/">>, <<"S">>, FALSE)}

InitGates ==
    \E ctx \in GateContexts, p \in Forests, kind \in [Ids -> GateKinds],
       hf \in {0, HideFutureDays}, hour \in {0, 9} :
        Start(Snapshot(ctx, p, FALSE, kind), [DefaultArgs EXCEPT !.hide_future = hf],
              [day |-> 5, hour |-> hour], 1)

SpecGates == InitGates /\ [][Next]_vars

\* Two cycles with regeneration on; between them the service moves the due
\* date of the recurring parentless tasks to the next day.
RegenKinds ==
    {Kind(PLAIN, c, FALSE) : c \in BOOLEAN}
    \cup {KindOf(PLAIN, FALSE, Due(5, TRUE), l) :
             l \in {<<>>, <<"Regen_all">>, <<"Regen_off", "Regen_all">>}}

Advance ==
    /\ pc = "start"
    /\ Len(history) = 1
    /\ server = history[1].fetched
    /\ \E i \in DOMAIN server : server[i].parent_id = 0 /\ server[i].due.is_recurring
    /\ server' = [i \in DOMAIN server |->
                    IF server[i].parent_id = 0 /\ server[i].due.is_recurring
                    THEN [server[i] EXCEPT !.due.date = @ + 1]
                    ELSE server[i]]
    /\ UNCHANGED <<config, store, fetched, rg, td, pc, cursor, writes, history, cycles>>

NextRegen == Next \/ Advance

InitRegen ==
    \E p \in Forests, kind \in [Ids -> RegenKinds], mode \in {1, 2} :
        Start(Snapshot(Context(<<"P">>, <<"S">>, FALSE), p, FALSE, kind),
              [DefaultArgs EXCEPT !.regeneration = mode], Morning, 2)

SpecRegen == InitRegen /\ [][NextRegen]_vars

(***************************************************************************)
(* Properties.                                                             *)
(***************************************************************************)

\* The traversal of autodoist_magic is over and its labels not yet flushed.
PassEnd == pc = "flush"

Completed(i) == tasks[i].is_completed

Labelled(i) == HasLabel(tasks, i, args.label)

Children(i) == {c \in DOMAIN tasks : tasks[c].parent_id = i}

RECURSIVE DescendantsUpTo(_, _)
DescendantsUpTo(i, n) ==
    IF n = 0 THEN {}
    ELSE Children(i) \cup UNION {DescendantsUpTo(c, n - 1) : c \in Children(i)}

Descendants(i) == DescendantsUpTo(i, Cardinality(DOMAIN tasks))

\* The section a task is in.
SectionOf(i) ==
    IF tasks[i].section_id = 0 THEN create_none_section
    ELSE CHOOSE s \in Range(sections) : s.id = tasks[i].section_id

ProjectOf(i) == CHOOSE p \in Range(projects) : p.id = tasks[i].project_id

\* The item type, section type and project type of a task.
TypesOf(i) ==
    <<get_item_type(args, tasks, i,
                    {j \in DOMAIN tasks : tasks[j].section_id = tasks[i].section_id
                                          /\ tasks[j].project_id = tasks[i].project_id},
                    RecursionDepth(tasks)),
      get_section_type(args, SectionOf(i)),
      get_project_type(args, ProjectOf(i))>>

ActiveTypeOf(i) == ActiveType(TypesOf(i))

\* The item the loop body is working on, and its children that can take
\* the label, in sibling order.
Current == items[k]

Eligible ==
    FilterSeq(items, {c \in Range(items) : tasks[c].parent_id = Current
                                           /\ ~tasks[c].is_completed
                                           /\ ~IsHeader(tasks, c)})

\* C2 (amended): at the end of a pass, a non-completed, non-header item whose
\* active type is sequential or p-s has at most one non-completed child
\* holding the next-action label.
C2_SingleLiveBranch ==
    PassEnd =>
        \A i \in DOMAIN tasks :
            (~Completed(i) /\ ~IsHeader(tasks, i)
             /\ ActiveTypeOf(i) \in {"sequential", "p-s"})
            => Cardinality({c \in Children(i) : ~Completed(c) /\ Labelled(c)}) <= 1

\* C2 as claimed: at the end of a pass every item whose active type is
\* sequential or p-s has at most one child holding the label.
C2_AsClaimed ==
    PassEnd =>
        \A i \in DOMAIN tasks :
            ActiveTypeOf(i) \in {"sequential", "p-s"}
            => Cardinality({c \in Children(i) : Labelled(c)}) <= 1

\* A pass has ended in which a sequential item that is not completed and no
\* header had two non-completed children labelled in the snapshot, and one
\* of them alone holds the label now.
C2_Witness ==
    /\ PassEnd
    /\ \E i \in DOMAIN tasks : \E c, d \in Children(i) :
        /\ ~Completed(i) /\ ~IsHeader(tasks, i)
        /\ ActiveTypeOf(i) \in {"sequential", "p-s"}
        /\ c # d /\ ~Completed(c) /\ ~Completed(d)
        /\ HasLabel(fetched, c, args.label) /\ HasLabel(fetched, d, args.label)
        /\ Labelled(c) /\ ~Labelled(d)

\* C3 (amended): the propagation step of an item whose active type is
\* parallel (or s-p while the item holds the label) and that has a
\* non-completed child leaves every non-completed, non-header child with the
\* label and the item without it.
C3_FanOut ==
    [][(/\ pc = "prop"
        /\ Len(ChildItems(tasks, items, Current)) > 0
        /\ \/ ActiveType(hierarchy_types) = "parallel"
           \/ ActiveType(hierarchy_types) = "s-p" /\ Labelled(Current))
       => /\ \A c \in Range(Eligible) : HasLabel(tasks', c, args.label)
          /\ ~HasLabel(tasks', Current, args.label)]_vars

\* C3 as claimed: at the end of a pass every non-completed, non-header child
\* of an item whose active type is parallel holds the label (the item being
\* one the pass works on: not completed and no header).
C3_AsClaimed ==
    PassEnd =>
        \A i \in DOMAIN tasks :
            (~Completed(i) /\ ~IsHeader(tasks, i) /\ ActiveTypeOf(i) = "parallel")
            => \A c \in Children(i) :
                  (~Completed(c) /\ ~IsHeader(tasks, c)) => Labelled(c) /\ ~Labelled(i)

\* Scenario 1: the item "T//" has been propagated; its two children, not
\* completed and no headers, hold the label and the item does not.
C3_Witness ==
    /\ pc = "gate"
    /\ tasks[Current].content = PARALLEL
    /\ Len(Eligible) = 2
    /\ \A c \in Range(Eligible) : Labelled(c) /\ ~HasLabel(fetched, c, args.label)
    /\ ~Labelled(Current)

\* C4: at the end of a pass no header and no descendant of a header holds
\* the next-action label.  Stated for the tasks that are not completed and
\* for snapshots in which no task carries the label, the case most
\* favourable to the claim.
C4_HeaderExclusion ==
    (PassEnd /\ \A j \in DOMAIN fetched : ~HasLabel(fetched, j, args.label))
    => \A i \in DOMAIN tasks :
          IsHeader(tasks, i)
          => /\ ~Completed(i) => ~Labelled(i)
             /\ \A d \in Descendants(i) : ~Completed(d) => ~Labelled(d)

\* C5: once the rule for parentless items has run for a non-completed,
\* non-header parentless item whose own title carries a type suffix, the
\* item holds the next-action label, whatever the section and project types
\* and first-found flags are.
C5_Precedence ==
    (pc = "prop" /\ tasks[Current].parent_id = 0
     /\ get_type(args, tasks[Current].content) # None)
    => Labelled(Current)

\* The rule has labelled a typed parentless item of a sequential or s-p
\* project or section after an earlier parentless item of the same section
\* that was labelled in this pass and not in the snapshot.
C5_Witness ==
    /\ pc = "prop"
    /\ tasks[Current].parent_id = 0
    /\ get_type(args, tasks[Current].content) # None
    /\ \/ section_type \in {"sequential", "s-p"}
       \/ section_type = None /\ project_type \in {"sequential", "s-p"}
    /\ \E j \in 1..(k - 1) :
        /\ tasks[items[j]].parent_id = 0
        /\ Labelled(items[j])
        /\ ~HasLabel(fetched, items[j], args.label)
    /\ Labelled(Current)
    /\ ~HasLabel(fetched, Current, args.label)

\* C6 (amended): the propagation step of an item whose active type is
\* sequential or p-s, that holds the label and has a non-completed,
\* non-header child, leaves the label on the first such child in sibling
\* order, on no other non-completed, non-header child and not on the item.
C6_HandOff ==
    [][(/\ pc = "prop"
        /\ ActiveType(hierarchy_types) \in {"sequential", "p-s"}
        /\ Labelled(Current)
        /\ Eligible # <<>>)
       => /\ HasLabel(tasks', Head(Eligible), args.label)
          /\ \A c \in Range(Tail(Eligible)) : ~HasLabel(tasks', c, args.label)
          /\ ~HasLabel(tasks', Current, args.label)]_vars

\* C6 as claimed: after the step the label is on the first such child and
\* on no other child of the item.
C6_AsClaimed ==
    [][(/\ pc = "prop"
        /\ ActiveType(hierarchy_types) \in {"sequential", "p-s"}
        /\ Labelled(Current)
        /\ Eligible # <<>>)
       => /\ HasLabel(tasks', Head(Eligible), args.label)
          /\ \A c \in Children(Current) \ {Head(Eligible)} :
                ~HasLabel(tasks', c, args.label)
          /\ ~HasLabel(tasks', Current, args.label)]_vars

\* Scenario 2 with a stale label: a sequential item has handed the label to
\* the first of two eligible children, the one with the higher id, and the
\* other child, labelled in the snapshot, has lost it.
C6_Witness ==
    /\ pc = "gate"
    /\ ActiveType(hierarchy_types) \in {"sequential", "p-s"}
    /\ Len(Eligible) = 2
    /\ Eligible[1] > Eligible[2]
    /\ Labelled(Eligible[1]) /\ ~HasLabel(fetched, Eligible[1], args.label)
    /\ ~Labelled(Eligible[2]) /\ HasLabel(fetched, Eligible[2], args.label)
    /\ ~Labelled(Current)

\* C1: when two cycles have run with no change at the service between them
\* but the label writes of the first, the second cycle issues no label write
\* and leaves every task with the labels the first left it with.
C1_FixedPoint ==
    (pc = "done" /\ Len(history) = 2)
    => /\ history[2].writes = {}
       /\ Labels(history[2].left) = Labels(history[1].left)

\* The due date the service shows for a recurring parentless task differs
\* from the one the previous cycle saw: the task has rolled over.
RolledOver(r) ==
    /\ Len(history) = 1
    /\ fetched[r].parent_id = 0
    /\ fetched[r].due.is_recurring
    /\ fetched[r].due.date # history[1].fetched[r].due.date

RegenLabels(r) == Range(fetched[r].labels) \cap Range(regen_label_names)

\* C7: at the end of a pass in which a recurring parentless task has rolled
\* over and the resolved mode is regenerate-all (the global mode, the task
\* carrying no regeneration label), every descendant of the task has been
\* completed and reopened and its regenerate flag is cleared.
C7_Cascade ==
    PassEnd =>
        \A r \in DOMAIN tasks :
            (RolledOver(r) /\ args.regeneration = 1 /\ RegenLabels(r) = {})
            => \A d \in Descendants(r) : d \in rg.reopened /\ rg.r_tag[d] = 0

\* C8: at the end of a pass a non-completed, non-header task whose title
\* holds a well-formed start=<date> token with today before that date does
\* not hold the next-action label, nor does any of its non-completed
\* children.  Stated for the configuration without the hide-future option.
C8_StartGate ==
    (PassEnd /\ args.hide_future = 0)
    => \A i \in DOMAIN tasks :
          (~Completed(i) /\ ~IsHeader(tasks, i)
           /\ start_gate(args, now, tasks[i]) = "remove")
          => /\ ~Labelled(i)
             /\ \A c \in Children(i) : ~Completed(c) => ~Labelled(c)

\* C9: with a hide-future threshold N > 0, the gates of an item whose due
\* date is N or more days ahead leave it without the next-action label.
C9_HideFuture ==
    [][(/\ pc = "gate"
        /\ args.hide_future > 0
        /\ tasks[Current].due.present
        /\ DaysBetween(Midnight(tasks[Current].due.date), now) >= args.hide_future)
       => ~HasLabel(tasks', Current, args.label)]_vars

\* C10: at the end of a pass in which a recurring parentless task has rolled
\* over, a task carrying two or more regeneration labels has had the
\* conflict reported and the global mode used for it, and a task carrying
\* none has had the global mode used for it.
C10_Conflict ==
    PassEnd =>
        \A r \in DOMAIN tasks :
            (RolledOver(r) /\ args.regeneration # NoRegen)
            => /\ Cardinality(RegenLabels(r)) >= 2
                  => r \in rg.warned /\ rg.mode_used[r] = args.regeneration
               /\ RegenLabels(r) = {} => rg.mode_used[r] = args.regeneration

\* 1 when the task holds the next-action label, 0 when it does not.
Membership(t, i) == IF HasLabel(t, i, args.label) THEN 1 ELSE 0

\* The tasks whose membership at the end of a finished cycle differs from
\* the one the cycle fetched.
Changed(h) == {i \in DOMAIN h.left : HasLabel(h.left, i, args.label)
                                     # HasLabel(h.fetched, i, args.label)}

\* C11: the counter of every task touched in a pass is its membership now
\* minus its membership in the snapshot (so it is -1, 0 or 1, and not 0
\* exactly when the membership changed), and the flush of every finished
\* cycle wrote exactly the tasks whose membership changed, each with the
\* label list the pass left it with.
C11_CoalescedWrites ==
    /\ \A i \in DOMAIN overview_item_ids :
          overview_item_ids[i] = Membership(tasks, i) - Membership(fetched, i)
    /\ \A n \in 1..Len(history) :
          history[n].writes = {[task_id |-> i, labels |-> history[n].left[i].labels] :
                                  i \in Changed(history[n])}

\* A cycle has been flushed in which one task was labelled and unlabelled
\* again (counter back at 0, no write) and another changed membership (one
\* write, with its final labels).
C11_Witness ==
    /\ pc = "start"
    /\ Len(history) = 1
    /\ \E i, j \in DOMAIN overview_item_ids :
        /\ overview_item_ids[i] = 0
        /\ i \in overview_item_labels
        /\ \A w \in history[1].writes : w.task_id # i
        /\ overview_item_ids[j] # 0
        /\ [task_id |-> j, labels |-> history[1].left[j].labels] \in history[1].writes

(***************************************************************************)
(* Snapshots with relative start tokens.                                   *)
(***************************************************************************)

\* Titles with a start=due-<N><unit> token, well-formed and not, and with a
\* start=<date> token whose date does not parse.
REL_DAYS == <<"S", " ", "s", "t", "a", "r", "t", "=", "d", "u", "e", "-", "2", "d">>
REL_WEEKS == <<"S", " ", "s", "t", "a", "r", "t", "=", "d", "u", "e", "-", "1", "w">>
REL_WEEKS_D == <<"d", "o", " ", "s", "t", "a", "r", "t", "=", "d", "u", "e", "-", "1", "w">>
REL_DAYS_W == <<"w", "e", " ", "s", "t", "a", "r", "t", "=", "d", "u", "e", "-", "2", "d", " ", "x">>
REL_NO_UNIT == <<"S", " ", "s", "t", "a", "r", "t", "=", "d", "u", "e", "-", "3">>
REL_BAD == <<"S", " ", "s", "t", "a", "r", "t", "=", "d", "u", "e", "-", "x", "d">>
START_BAD == <<"S", " ", "s", "t", "a", "r", "t", "=", "x">>

RelativeKinds ==
    {Kind(PLAIN, FALSE, FALSE)}
    \cup {KindOf(REL_DAYS, FALSE, d, <<>>) : d \in {NoDue, Due(6, FALSE), Due(8, FALSE)}}
    \cup {KindOf(t, FALSE, Due(8, FALSE), <<>>) :
             t \in {REL_WEEKS_D, REL_DAYS_W, REL_NO_UNIT, REL_BAD}}
    \cup {KindOf(REL_WEEKS, FALSE, d, <<>>) : d \in {Due(8, FALSE), Due(15, FALSE)}}
    \cup {Kind(START_BAD, FALSE, FALSE)}

\* One cycle over the snapshots of RelativeKinds, today being day 5.
InitRelative ==
    \E ctx \in GateContexts, p \in Forests, kind \in [Ids -> RelativeKinds] :
        Start(Snapshot(ctx, p, FALSE, kind), DefaultArgs, Morning, 1)

SpecRelative == InitRelative /\ [][Next]_vars

\* The text of a token of a title: the characters after the token's marker
\* up to the next blank or the end of the title.
TokenText(content, marker) ==
    LET rest == From(content, Find(content, marker) + Len(marker))
        blank == Find(rest, <<" ">>)
    IN  IF blank > -1 THEN Prefix(rest, blank) ELSE rest

HasToken(content, marker) == Find(content, marker) > -1

\* A relative token is well-formed when its text is a number followed by
\* the unit d or w.
WellFormedRelative(content) ==
    LET text == TokenText(content, START_DUE_TOKEN)
    IN  /\ HasToken(content, START_DUE_TOKEN)
        /\ Len(text) >= 2
        /\ text[Len(text)] \in {"d", "w"}
        /\ IsDigits(Prefix(text, Len(text) - 1))

\* The start annotation of an item is malformed, or is relative on an item
\* without due date.
MalformedStart(item) ==
    \/ /\ HasToken(item.content, START_DUE_TOKEN)
       /\ ~WellFormedRelative(item.content) \/ ~item.due.present
    \/ /\ HasToken(item.content, START_TOKEN)
       /\ ~HasToken(item.content, START_DUE_TOKEN)
       /\ ~ParseDate(TokenText(item.content, START_TOKEN)).ok

\* C12: the gates of an item whose start annotation is malformed, or
\* relative with no due date, leave the labels of the item and of its
\* children as propagation left them, and the traversal goes on with the
\* next item of the section.
C12_FailOpen ==
    [][(pc = "gate" /\ MalformedStart(tasks[Current]))
       => /\ tasks'[Current].labels = tasks[Current].labels
          /\ \A c \in Children(Current) : tasks'[c].labels = tasks[c].labels
          /\ pc' = "item" /\ k' = k + 1 /\ items' = items]_vars

(***************************************************************************)
(* Failing calls of the service.  Neither autodoist_magic, nor             *)
(* update_labels, nor the main loop has a try statement around the calls   *)
(* of the api object: an exception one of them raises leaves main and ends *)
(* the process.                                                            *)
(***************************************************************************)

\* Lines 506-508: get_tasks, get_sections or get_projects raises.
FetchFails ==
    /\ pc = "start"
    /\ pc' = "crashed"
    /\ UNCHANGED <<config, store, server, fetched, rg, td, cursor, writes, history, cycles>>

\* Line 303: an update_task call of the flush raises, after the calls made
\* before it were applied (the dictionary's order is not modelled: any
\* part of the batch but the whole may have been applied).
FlushFails ==
    /\ pc = "flush"
    /\ args.label # None
    /\ LET w == update_labels(overview_item_ids, tasks)
       IN  \E applied \in SUBSET w :
              /\ applied # w
              /\ writes' = applied
              /\ server' = [i \in DOMAIN server |->
                              IF \E c \in applied : c.task_id = i
                              THEN [server[i] EXCEPT !.labels = tasks[i].labels]
                              ELSE server[i]]
    /\ pc' = "crashed"
    /\ UNCHANGED <<config, store, fetched, rg, td, cursor, history, cycles>>

NextTransport == Next \/ FetchFails \/ FlushFails

\* Two cycles in which a call of the service can fail.
InitTransport ==
    \E ctx \in TwoPassContexts, p \in Forests, kind \in [Ids -> TwoPassKinds] :
        Start(Snapshot(ctx, p, FALSE, kind), DefaultArgs, Morning, 2)

SpecTransport == InitTransport /\ [][NextTransport]_vars

\* C13: a cycle whose fetch or flush is due does not end the process: the
\* next step is the traversal, the flush or the start of the next cycle.
C13_TransportFailure ==
    [][(pc \in {"start", "flush"}) => (pc' # "crashed")]_vars

(***************************************************************************)
(* Snapshots of one project whose tasks are spread over the tasks without  *)
(* section and two sections.                                               *)
(***************************************************************************)

\* Parent links of depth one: task 1 is parentless, every other task is
\* parentless or a child of task 1.
Shallow == {p \in Forests : \A i \in Ids : p[i] \in {0, 1}}

\* The section of every task: 0 for none.
Placements == [Ids -> 0..2]

SectionKinds ==
    {Kind(PLAIN, FALSE, FALSE), Kind(PLAIN, FALSE, TRUE), Kind(PLAIN, TRUE, FALSE),
     Kind(PARALLEL, FALSE, FALSE), Kind(HEADER, FALSE, FALSE)}

\* The names of the project and of its first section; the second section
\* is untyped.
SectionContexts ==
    {[project_name |-> <<"P", "-", "-">>, section_name |-> <<"S">>],
     [project_name |-> <<"P", "-", "/">>, section_name |-> <<"S">>],
     [project_name |-> <<"P">>, section_name |-> <<"S", "-", "-">>],
     [project_name |-> <<"P", "-", "-">>, section_name |-> <<"S", "-", "/">>]}

SectionSnapshot(ctx, p, place, kind) ==
    [projects |-> <<[id |-> 1, name |-> ctx.project_name]>>,
     sections |-> <<[id |-> 1, project_id |-> 1, name |-> ctx.section_name],
                    [id |-> 2, project_id |-> 1, name |-> <<"U">>]>>,
     tasks |-> [i \in Ids |->
                  [id |-> i, parent_id |-> p[i], section_id |-> place[i],
                   project_id |-> 1, content |-> kind[i].content, order |-> i,
                   is_completed |-> kind[i].is_completed, due |-> kind[i].due,
                   labels |-> kind[i].labels]]]

InitSections ==
    \E ctx \in SectionContexts, p \in Shallow, place \in Placements,
       kind \in [Ids -> SectionKinds] :
        Start(SectionSnapshot(ctx, p, place, kind), DefaultArgs, Morning, 1)

SpecSections == InitSections /\ [][Next]_vars

\* A parentless task the pass works on: not completed and no header.
LiveRoot(i) == tasks[i].parent_id = 0 /\ ~Completed(i) /\ ~IsHeader(tasks, i)

\* The live roots of the current section the loop has been through.
EarlierInSection == {items[j] : j \in {n \in 1..(k - 1) : LiveRoot(items[n])}}

\* The live roots of the current project the loop has been through, in the
\* current section and in the sections before it.
EarlierInProject ==
    EarlierInSection
    \cup {i \in DOMAIN tasks :
            /\ LiveRoot(i)
            /\ tasks[i].project_id = projects[proj].id
            /\ i \notin Range(items)
            /\ \A s \in Range(secs) : s.id # tasks[i].section_id}

\* C14: the rule for parentless items, on an untyped live root.  In a
\* sequential or s-p section the root is labelled when it is the first live
\* root of the section and its labels are left alone when it is not.  In an
\* untyped section of a sequential or s-p project the same holds with the
\* first live root of the project, over all its sections.
C14_RootGating ==
    [][(/\ pc = "item" /\ pc' = "prop"
        /\ tasks[Current].parent_id = 0
        /\ TypesOf(Current)[1] = None)
       => /\ TypesOf(Current)[2] \in {"sequential", "s-p"}
             => IF EarlierInSection = {}
                THEN HasLabel(tasks', Current, args.label)
                ELSE tasks'[Current].labels = tasks[Current].labels
          /\ (TypesOf(Current)[2] = None /\ TypesOf(Current)[3] \in {"sequential", "s-p"})
             => IF EarlierInProject = {}
                THEN HasLabel(tasks', Current, args.label)
                ELSE tasks'[Current].labels = tasks[Current].labels]_vars

\* The rule has run for the third untyped live root of a sequential
\* project: the first, in an earlier section, was labelled by the rule, the
\* other two were not.
C14_Witness ==
    /\ pc = "prop"
    /\ TypesOf(Current)[2] = None
    /\ TypesOf(Current)[3] \in {"sequential", "s-p"}
    /\ LiveRoot(Current) /\ ~Labelled(Current)
    /\ \E a \in EarlierInProject \ EarlierInSection : \E b \in EarlierInSection :
        /\ TypesOf(a)[1] = None /\ TypesOf(a)[2] = None
        /\ Labelled(a) /\ ~HasLabel(fetched, a, args.label)
        /\ ~Labelled(b)

\* C15 (amended): the loop skips a completed item: the step leaves the
\* labels of every task as they were, those of the item and of its children
\* included, and goes on with the next item.
C15_CompletedSkipped ==
    [][(pc = "item" /\ k <= Len(items) /\ Completed(items[k]))
       => /\ Labels(tasks') = Labels(tasks)
          /\ pc' = "item" /\ k' = k + 1]_vars

\* C15 as claimed: at the end of a pass a completed task that carried the
\* next-action label in the snapshot does not carry it.
C15_AsClaimed ==
    PassEnd =>
        \A i \in DOMAIN tasks :
            (Completed(i) /\ HasLabel(fetched, i, args.label)) => ~Labelled(i)

\* The loop has just skipped a completed item of parallel active type that
\* carried the label in the snapshot: it still carries it, and its
\* non-completed child has not been given it.
C15_Witness ==
    /\ pc = "item"
    /\ k > 1
    /\ LET i == items[k - 1]
       IN  /\ Completed(i)
           /\ HasLabel(fetched, i, args.label) /\ Labelled(i)
           /\ ActiveTypeOf(i) = "parallel"
           /\ \E c \in Children(i) : ~Completed(c) /\ ~IsHeader(tasks, c) /\ ~Labelled(c)

\* C16: at the end of a pass in which a recurring parentless task has
\* rolled over, the watermark stored for the task is its due date as it
\* stands then (so that the next pass sees no rollover).
C16_Watermark ==
    PassEnd =>
        \A r \in DOMAIN tasks :
            (RolledOver(r) /\ args.regeneration # NoRegen)
            => rg.date_old[r] = tasks[r].due.date

\* The mode of the one regeneration label a task carries: the position of
\* the label in regen_label_names, counted from 0.
LabelMode(r) == CHOOSE m \in 0..2 : regen_label_names[m + 1] \in RegenLabels(r)

\* C17: at the end of a pass in which a recurring parentless task with at
\* most one regeneration label has rolled over, the children regenerated
\* are those its mode asks for: the mode of the label when it carries one,
\* the global mode when it carries none; all children for regenerate-all,
\* all children when none is incomplete for the conditional mode, none for
\* off.
C17_ModeOverride ==
    PassEnd =>
        \A r \in DOMAIN tasks :
            (RolledOver(r) /\ args.regeneration # NoRegen
             /\ Cardinality(RegenLabels(r)) <= 1)
            => LET mode == IF RegenLabels(r) = {} THEN args.regeneration
                           ELSE LabelMode(r)
                   asked == mode = 1
                            \/ (mode = 2 /\ \A c \in Children(r) : fetched[c].is_completed)
               IN  Children(r) \cap rg.reopened = IF asked THEN Children(r) ELSE {}

(***************************************************************************)
(* Snapshots for the alternative end of day.                               *)
(***************************************************************************)

\* The hour given with --end: after and before the hour of Morning.
EndHourLate == 12
EndHourEarly == 8

EndOfDayKinds ==
    {Kind(PLAIN, FALSE, FALSE)}
    \cup {KindOf(PLAIN, FALSE, Due(d, TRUE), <<>>) : d \in {4, 5}}

\* Between two cycles the recurring parentless tasks are completed at the
\* service, which moves their due date to the day after today.
Reschedule ==
    /\ pc = "start"
    /\ Len(history) = 1
    /\ \E i \in DOMAIN server :
          /\ server[i].parent_id = 0 /\ server[i].due.is_recurring
          /\ server[i].due.date # now.day + 1
    /\ server' = [i \in DOMAIN server |->
                    IF server[i].parent_id = 0 /\ server[i].due.is_recurring
                    THEN [server[i] EXCEPT !.due.date = now.day + 1]
                    ELSE server[i]]
    /\ UNCHANGED <<config, store, fetched, rg, td, pc, cursor, writes, history, cycles>>

NextEndOfDay == Next \/ Reschedule

InitEndOfDay ==
    \E p \in Forests, kind \in [Ids -> EndOfDayKinds], e \in {EndHourEarly, EndHourLate} :
        Start(Snapshot(Context(<<"P", "/", "/">>, <<"S">>, FALSE), p, FALSE, kind),
              [DefaultArgs EXCEPT !.end = e], Morning, 2)

SpecEndOfDay == InitEndOfDay /\ [][NextEndOfDay]_vars

\* C18: at the end of a pass with the alternative end of day set, the due
\* date of a recurring parentless task is today when the hour is before the
\* end hour, the due date has moved to tomorrow and the due date the
\* previous cycle saw is at least one day in the past; in every other case
\* it is the due date the pass fetched.
C18_EndOfDay ==
    (PassEnd /\ Len(history) = 1 /\ args.end # NoEnd)
    => \A r \in DOMAIN tasks :
          (tasks[r].parent_id = 0 /\ fetched[r].due.is_recurring)
          => IF /\ args.end - now.hour > 0
                /\ fetched[r].due.date = now.day + 1
                /\ history[1].fetched[r].due.date <= now.day - 1
             THEN tasks[r].due.date = now.day
             ELSE tasks[r].due.date = fetched[r].due.date

\* The start date a well-formed relative token gives an item with a due
\* date: the due date minus the number of days or weeks of the token.
RelativeStart(item) ==
    LET text == TokenText(item.content, START_DUE_TOKEN)
        n == DigitsValue(Prefix(text, Len(text) - 1))
    IN  item.due.date - (IF text[Len(text)] = "w" THEN 7 * n ELSE n)

\* C19: the gates of an item with a due date and a well-formed
\* start=due-<N>d or start=due-<N>w token remove the next-action label from
\* the item and from its non-completed children when today is before the
\* due date minus N days or weeks, and change no label otherwise, whatever
\* else the title holds.
C19_RelativeGate ==
    [][(/\ pc = "gate"
        /\ tasks[Current].due.present
        /\ WellFormedRelative(tasks[Current].content))
       => IF DaysBetween(now, Midnight(RelativeStart(tasks[Current]))) < 0
          THEN /\ ~HasLabel(tasks', Current, args.label)
               /\ \A c \in Children(Current) :
                     ~Completed(c) => ~HasLabel(tasks', c, args.label)
          ELSE Labels(tasks') = Labels(tasks)]_vars

(***************************************************************************)
(* Type classification under configured suffixes.                          *)
(***************************************************************************)

\* Suffix options: the defaults, a shorter sequential suffix, a longer one.
DefaultSuffixes ==
    [pp |-> <<"/", "/">>, ss |-> <<"-", "-">>, ps |-> <<"/", "-">>, sp |-> <<"-", "/">>]

ShortSequential == [DefaultSuffixes EXCEPT !.ss = <<"-">>]

LongSequential == [DefaultSuffixes EXCEPT !.ss = <<"-", "-", "-">>]

SuffixConfigs == {DefaultSuffixes, ShortSequential, LongSequential}

\* The values of the --inbox option.
InboxChoices == {None, "parallel", "sequential"}

\* The command line with suffix options s and inbox option b.
NameArgs(s, b) ==
    [DefaultArgs EXCEPT !.pp_suffix = s.pp, !.ss_suffix = s.ss,
                        !.ps_suffix = s.ps, !.sp_suffix = s.sp, !.inbox = b]

\* Names of projects and sections.
ProjectNames ==
    {INBOX, <<"P">>, <<"P", "/", "/">>, <<"P", "-", "-">>, <<"P", "/", "-">>,
     <<"P", "-", "/">>, <<"P", "-", "-", "-">>, <<"P", "_", "-">>, <<"P", "_">>,
     <<"P", "-">>, <<" ", "P", "-", "/", " ">>}

SectionNames == {<<"S">>, <<"S", "-", "/">>, <<"S", "-", "_">>, <<"S", "/", "-">>}

NameKinds == {Kind(PLAIN, FALSE, FALSE), Kind(PAR_SEQ, FALSE, FALSE)}

\* One cycle over projects and sections of these names, for every suffix
\* and inbox option.
InitNames ==
    \E s \in SuffixConfigs, b \in InboxChoices, pn \in ProjectNames,
       sn \in SectionNames, p \in Shallow, kind \in [Ids -> NameKinds] :
        Start(Snapshot(Context(pn, sn, TRUE), p, FALSE, kind), NameArgs(s, b), Morning, 1)

SpecNames == InitNames /\ [][Next]_vars

\* The configured suffixes in the order pp, ss, ps, sp, and their types.
ConfiguredSuffixes(a) == <<a.pp_suffix, a.ss_suffix, a.ps_suffix, a.sp_suffix>>

SuffixTypes == <<"parallel", "sequential", "p-s", "s-p">>

\* name ends with the characters of s.
EndsWith(name, s) ==
    Len(name) >= Len(s) /\ SubSeq(name, Len(name) - Len(s) + 1, Len(name)) = s

\* The legacy fallbacks for names that cannot hold a slash.
LegacyType(a, name) ==
    IF a.ps_suffix = <<"/", "-">> /\ EndsWith(name, <<"_", "-">>) THEN "p-s"
    ELSE IF a.sp_suffix = <<"-", "/">> /\ EndsWith(name, <<"-", "_">>) THEN "s-p"
    ELSE IF a.pp_suffix = <<"/", "/">> /\ EndsWith(name, <<"_">>) THEN "parallel"
    ELSE None

\* The type by the longest configured suffix the name ends with, the
\* earlier of pp, ss, ps, sp among suffixes of one length.
LongestSuffixType(a, name) ==
    LET s == ConfiguredSuffixes(a)
        matching == {n \in 1..4 : EndsWith(name, s[n])}
        best == CHOOSE n \in matching :
                    \A m \in matching :
                        \/ Len(s[n]) > Len(s[m])
                        \/ Len(s[n]) = Len(s[m]) /\ n <= m
    IN  IF name = INBOX THEN a.inbox
        ELSE IF matching # {} THEN SuffixTypes[best]
        ELSE LegacyType(a, name)

\* C20: the type of the current project and the type of the current
\* section are the inbox option for the name Inbox, else the type of the
\* longest configured suffix the stripped name ends with (pp, ss, ps, sp
\* in this order among equals), else the legacy fallback, else none, for
\* every choice of suffixes.
C20_Classification ==
    [][/\ (pc = "project" /\ pc' = "section")
          => project_type' = LongestSuffixType(args, Strip(projects[proj'].name))
       /\ (pc = "section" /\ pc' = "item")
          => section_type' = LongestSuffixType(args, Strip(Head(secs).name))]_vars

(***************************************************************************)
(* Inherited types and the traversal order.                                *)
(***************************************************************************)

\* The type of the nearest of i and its ancestors, at most n parent links
\* up, whose own title has a type.
RECURSIVE NearestType(_, _)
NearestType(i, n) ==
    LET own == get_type(args, tasks[i].content)
    IN  IF own # None THEN own
        ELSE IF tasks[i].parent_id = 0 \/ n = 0 THEN None
        ELSE NearestType(tasks[i].parent_id, n - 1)

\* The first of a list of types that is not none.
RECURSIVE FirstTyped(_)
FirstTyped(types) ==
    IF types = <<>> THEN None
    ELSE IF Head(types) # None THEN Head(types)
    ELSE FirstTyped(Tail(types))

\* C21: while the loop body works on an item, the item type it holds is
\* the item's own type or else the type of its nearest typed ancestor or
\* else none, and the active type is the first that is not none of this
\* item type, the type of the item's section and the type of its project.
C21_InheritedType ==
    pc \in {"prop", "gate"}
    => /\ hierarchy_types[1] = NearestType(Current, NItems)
       /\ ActiveType(hierarchy_types)
          = FirstTyped(<<NearestType(Current, NItems),
                         get_type(args, SectionOf(Current).name),
                         get_type(args, ProjectOf(Current).name)>>)

\* An untyped item under an untyped parent takes the type of its
\* grandparent.
C21_Witness ==
    /\ pc = "prop"
    /\ get_type(args, tasks[Current].content) = None
    /\ tasks[Current].parent_id # 0
    /\ get_type(args, tasks[tasks[Current].parent_id].content) = None
    /\ hierarchy_types[1] \in {"sequential", "p-s", "s-p"}

(***************************************************************************)
(* Parent links with a cycle.                                              *)
(***************************************************************************)

\* The parent links that are no forest: some task is its own ancestor.
Cyclic == [Ids -> 0..NItems] \ Forests

CycleKinds ==
    {Kind(PLAIN, FALSE, l) : l \in BOOLEAN}
    \cup {Kind(t, FALSE, FALSE) : t \in {PARALLEL, SEQUENTIAL}}

CycleContexts ==
    {Context(<<"P">>, <<"S">>, FALSE),
     Context(<<"P", "/", "/">>, <<"S">>, FALSE),
     Context(<<"P", "-", "-">>, <<"S">>, FALSE)}

\* One cycle of the main loop over snapshots whose parent links hold a cycle.
InitCycles ==
    \E ctx \in CycleContexts, p \in Cyclic, kind \in [Ids -> CycleKinds] :
        Start(Snapshot(ctx, p, FALSE, kind), DefaultArgs, Morning, 1)

SpecCycles == InitCycles /\ [][Next]_vars

\* Lines 611-614: what the loop body logs about the item type: a line
\* when there is one; the except of get_item_type logs nothing.
ItemTypeLog(item_type) == IF item_type # None THEN <<"Identified">> ELSE <<>>

\* Task i is on a cycle of parent links whose tasks all have no type of
\* their own.
RECURSIVE UntypedPath(_, _, _)
UntypedPath(i, target, n) ==
    /\ i # 0
    /\ get_type(args, tasks[i].content) = None
    /\ \/ tasks[i].parent_id = target
       \/ n > 0 /\ UntypedPath(tasks[i].parent_id, target, n - 1)

OnUntypedCycle(i) == UntypedPath(i, i, NItems)

RootsFirst ==
    \A a, b \in 1..Len(items) :
        a < b => /\ tasks[items[b]].parent_id = 0 => tasks[items[a]].parent_id = 0
                 /\ tasks[items[a]].parent_id = tasks[items[b]].parent_id
                    => tasks[items[a]].order < tasks[items[b]].order

\* C23: the items of a section are visited in the order of the list sorted
\* by (parent id or 0, sibling order), one after the other from the first:
\* every parentless item before any item with a parent, the children of
\* one parent in increasing sibling order.
C23_TraversalOrder ==
    [][/\ RootsFirst'
       /\ (pc = "section" /\ pc' = "item") => k' = 1
       /\ (pc = "gate") => (k' = k + 1 /\ items' = items)
       /\ (pc = "item" /\ pc' = "prop") => (k' = k /\ items' = items)]_vars

\* The loop is at an item with a parent that comes after a parentless item
\* of higher sibling order.
C23_Witness ==
    /\ pc = "gate"
    /\ tasks[Current].parent_id # 0
    /\ \E a \in 1..(k - 1) :
          /\ tasks[items[a]].parent_id = 0
          /\ tasks[items[a]].order > tasks[Current].order

(***************************************************************************)
(* Header and un-header markers.                                           *)
(***************************************************************************)

MARKED_PROJECT == <<"*", "*", " ", "P">>
MARKED_SECTION == <<"*", "*", " ", "S">>
MARKED_ITEM == <<"*", "*", " ", "A">>

HeaderKinds ==
    {Kind(PLAIN, FALSE, l) : l \in BOOLEAN}
    \cup {Kind(HEADER, FALSE, FALSE), Kind(MARKED_ITEM, FALSE, FALSE)}

HeaderContexts ==
    {Context(<<"P", "/", "/">>, <<"S">>, TRUE),
     Context(MARKED_PROJECT, <<"S">>, TRUE),
     Context(<<"P", "/", "/">>, MARKED_SECTION, TRUE),
     Context(<<"P", "/", "/">>, MARKED_SECTION, FALSE)}

\* One cycle over snapshots with the header marker on the project, on the
\* section or on items.
InitHeaders ==
    \E ctx \in HeaderContexts, p \in Forests, kind \in [Ids -> HeaderKinds] :
        Start(Snapshot(ctx, p, FALSE, kind), DefaultArgs, Morning, 1)

SpecHeaders == InitHeaders /\ [][Next]_vars

HasMarker(title) == Prefix(title, 3) = HEADER_MARK

\* The title with the header flag put before it, when it has none.
Flagged(title) == IF StartsWith(title, HEADER_FLAG) THEN title ELSE <<"*", " ">> \o title

\* The tasks that start with the marker in the snapshot, and the tasks
\* beneath a project or section that does.
MarkedItems == {i \in Ids : HasMarker(fetched[i].content)}

BeneathMarked ==
    {i \in Ids : \/ HasMarker(ProjectOf(i).name)
                 \/ tasks[i].section_id # 0 /\ HasMarker(SectionOf(i).name)}

\* C24: a cycle over a snapshot with header markers does not stop before
\* its flush, and at the end of the pass every item beneath a marked
\* project or section has its snapshot title with the header flag before
\* it (once), a marked item not beneath one has the flag in place of the
\* marker, its direct children have the flag, and every other item has
\* its snapshot title.
C24_HeaderScope ==
    /\ pc # "crashed"
    /\ PassEnd
       => \A i \in Ids :
             tasks[i].content
             = IF i \in BeneathMarked
               THEN Flagged(IF i \in MarkedItems THEN From(fetched[i].content, 3)
                            ELSE fetched[i].content)
               ELSE IF i \in MarkedItems THEN Flagged(From(fetched[i].content, 3))
               ELSE IF tasks[i].parent_id \in MarkedItems /\ ~Completed(i)
               THEN Flagged(fetched[i].content)
               ELSE fetched[i].content

UNMARKED_PROJECT == <<"!", "*", " ", "P">>
UNMARKED_SECTION == <<"!", "*", " ", "S">>
UNMARKED_ITEM == <<"!", "*", " ", "A">>

UnheaderKinds ==
    {Kind(PLAIN, FALSE, l) : l \in BOOLEAN}
    \cup {Kind(HEADER, FALSE, FALSE), Kind(UNMARKED_ITEM, FALSE, FALSE)}

UnheaderContexts ==
    {Context(<<"P", "/", "/">>, <<"S">>, TRUE),
     Context(UNMARKED_PROJECT, <<"S">>, TRUE),
     Context(<<"P", "/", "/">>, UNMARKED_SECTION, TRUE),
     Context(<<"P", "/", "/">>, UNMARKED_SECTION, FALSE)}

\* One cycle over snapshots with the un-header marker on the project, on
\* the section or on items, and with header items.
InitUnheader ==
    \E ctx \in UnheaderContexts, p \in Forests, kind \in [Ids -> UnheaderKinds] :
        Start(Snapshot(ctx, p, FALSE, kind), DefaultArgs, Morning, 1)

SpecUnheader == InitUnheader /\ [][Next]_vars

HasUnmarker(title) == Prefix(title, 3) = UNHEADER_MARK

\* The tasks the un-header of the snapshot reaches: those beneath a
\* project or section with the un-header marker and the children, not
\* completed, of an item with it.
Unheadered ==
    {i \in Ids : \/ HasUnmarker(ProjectOf(i).name)
                 \/ tasks[i].section_id # 0 /\ HasUnmarker(SectionOf(i).name)
                 \/ /\ tasks[i].parent_id # 0
                    /\ HasUnmarker(fetched[tasks[i].parent_id].content)
                    /\ ~Completed(i)}

\* C25: a cycle over a snapshot with un-header markers does not stop
\* before its flush, and at the end of the pass the items the un-header
\* reaches that start with the header flag have lost it, an item with the
\* marker has lost the marker, and every other title, that of a reached
\* item without flag included, is as in the snapshot.
C25_UnheaderFrame ==
    /\ pc # "crashed"
    /\ PassEnd
       => \A i \in Ids :
             tasks[i].content
             = IF HasUnmarker(fetched[i].content) THEN From(fetched[i].content, 3)
               ELSE IF i \in Unheadered /\ StartsWith(fetched[i].content, HEADER_FLAG)
               THEN From(fetched[i].content, 2)
               ELSE fetched[i].content

(***************************************************************************)
(* Labels other than the next-action label.                                *)
(***************************************************************************)

OTHER_LABEL == "errand"

\* Label lists of a snapshot: the next-action label, another label and
\* regeneration labels, in both orders.
LabelLists ==
    {<<>>, <<NEXT_ACTION>>, <<OTHER_LABEL>>, <<OTHER_LABEL, NEXT_ACTION>>,
     <<NEXT_ACTION, "Regen_off">>, <<"Regen_all", OTHER_LABEL>>}

LabelKinds ==
    {KindOf(PLAIN, FALSE, NoDue, l) : l \in LabelLists}
    \cup {KindOf(PLAIN, TRUE, NoDue, <<OTHER_LABEL, NEXT_ACTION>>),
          KindOf(SEQUENTIAL, FALSE, Due(5, TRUE), <<"Regen_all_if_completed">>)}

LabelContexts ==
    {Context(<<"P">>, <<"S">>, FALSE),
     Context(<<"P", "/", "/">>, <<"S">>, FALSE),
     Context(<<"P", "-", "-">>, <<"S">>, FALSE)}

\* One cycle over snapshots with these label lists, regeneration off or
\* in mode 1.
InitLabels ==
    \E ctx \in LabelContexts, p \in Shallow, kind \in [Ids -> LabelKinds],
       mode \in {NoRegen, 1} :
        Start(Snapshot(ctx, p, FALSE, kind), [DefaultArgs EXCEPT !.regeneration = mode],
              Morning, 1)

SpecLabels == InitLabels /\ [][Next]_vars

\* The number of times label l is in a label list.
Occurrences(labels, l) == Cardinality({n \in 1..Len(labels) : labels[n] = l})

\* The labels of a list that are not the next-action label.
OtherLabels(labels) == Range(labels) \ {args.label}

\* C26: at every point of a cycle every task has the labels other than
\* the next-action label it has in the snapshot, and the next-action label
\* at most once; every write of the flush carries, for its task, the other
\* labels of the snapshot and the next-action label at most once.
C26_LabelFrame ==
    /\ \A i \in Ids :
          /\ OtherLabels(tasks[i].labels) = OtherLabels(fetched[i].labels)
          /\ Occurrences(tasks[i].labels, args.label) <= 1
    /\ \A w \in writes :
          /\ OtherLabels(w.labels) = OtherLabels(fetched[w.task_id].labels)
          /\ Occurrences(w.labels, args.label) <= 1

\* A cycle has ended with two writes: one takes the next-action label
\* from a task that keeps a regeneration label, one gives it to a task
\* that keeps another label.
C26_Witness ==
    /\ pc = "done"
    /\ \E v, w \in writes :
          /\ NEXT_ACTION \in Range(fetched[v.task_id].labels)
          /\ Range(v.labels) = {"Regen_off"}
          /\ NEXT_ACTION \notin Range(fetched[w.task_id].labels)
          /\ Range(w.labels) \in {{OTHER_LABEL, NEXT_ACTION},
                                  {"Regen_all", OTHER_LABEL, NEXT_ACTION}}

(***************************************************************************)
(* The first cycle over a recurring task.                                  *)
(***************************************************************************)

\* The regeneration and end-of-day options with at least one of them set.
RecurringOptions ==
    {o \in [regeneration : {NoRegen, 0, 1, 2}, end : {NoEnd, EndHourEarly, EndHourLate}] :
        o.regeneration # NoRegen \/ o.end # NoEnd}

\* The first cycle of a run, for every such option.
InitFirstSighting ==
    \E p \in Shallow, kind \in [Ids -> RegenKinds], o \in RecurringOptions :
        Start(Snapshot(Context(<<"P">>, <<"S">>, FALSE), p, FALSE, kind),
              [DefaultArgs EXCEPT !.regeneration = o.regeneration, !.end = o.end],
              Morning, 1)

SpecFirstSighting == InitFirstSighting /\ [][Next]_vars

\* No watermark is stored for task r.
NoWatermark(r) == rg.date_old[r] \in {-1, 0}

\* C27: when the loop body comes to a parentless recurring task that has
\* no watermark yet, it stores the task's due date as the watermark, flags
\* no child for regeneration and changes no due date, for every
\* regeneration mode and end hour.
C27_FirstSighting ==
    [][(/\ pc = "item"
        /\ k <= Len(items)
        /\ tasks[items[k]].parent_id = 0
        /\ tasks[items[k]].due.present
        /\ tasks[items[k]].due.is_recurring
        /\ NoWatermark(items[k]))
       => /\ rg'.date_old[items[k]] = tasks[items[k]].due.date
          /\ rg'.r_tag = rg.r_tag
          /\ \A i \in Ids : tasks'[i].due = tasks[i].due]_vars

====
